---- MODULE Spec2Model ----
(***************************************************************************)
(* Model of the coffee-shop routes (express router over a Mongoose model). *)
(* One shop document is followed through its life: created, read, liked,   *)
(* commented on, deleted.  Every route handler is split at its `await` on  *)
(* the store: the first action runs findById and the synchronous code up   *)
(* to the write, the second performs the write and sends the response.     *)
(* Several requests are in flight at once (one per worker).                *)
(* The listing route reads the whole collection and nothing else; it is    *)
(* followed apart (ListSpec), over collections of shops whose aggregates   *)
(* are values the other routes store.                                      *)
(*                                                                         *)
(* Store semantics are those of the Mongoose calls the handlers make:      *)
(*   findById  - a private copy of the stored document, null when there is *)
(*               none, a CastError when the id cannot be an ObjectId;      *)
(*   doc.save  - an update, by _id, of the paths the handler modified      *)
(*               (never an insert for a loaded document);                  *)
(*   doc.remove- deletes by _id.                                           *)
(* What the schema (models/Coffee, not among the sources) decides is left  *)
(* open: whether array writes are version-checked (variable versionKey),   *)
(* and whether a non-numeric aggregate or review can be stored.            *)
(***************************************************************************)
EXTENDS Integers, Sequences, FiniteSets, TLC

\* ---------------------------------------------------------------- bounds
\* Requests issued in one behaviour.
MaxRequests == 4
\* Shops in the collection that is listed.
MaxShops == 3

\* ------------------------------------------------------------- constants
\* /^[0-9a-fA-F]{24}$/
ObjectIdLen == 24
\* Number(x) and x/0*0 that is not a number; aggregates are in hundredths >= 0.
NaN == -1
\* Aggregates of a freshly created shop.
DefaultAverageReview == 0
DefaultTotalReview == 0

\* req.user.id as resolved by the auth middleware
Users == {"u1", "u2", "u3"}
\* the users who create the shop (handlers compare user ids for equality only)
Creators == {"u1"}
\* requests in flight at once, each handled by a worker of its own
Workers == {1, 2}

HexChars ==
  {"0", "1", "2", "3", "4", "5", "6", "7", "8", "9",
   "a", "b", "c", "d", "e", "f", "A", "B", "C", "D", "E", "F"}
Digits == <<"0", "1", "2", "3", "4", "5", "6", "7", "8", "9">>

Repeat(c, n) == [i \in 1..n |-> c]
\* The id the store issues to the shop (it names no document before the shop
\* is created and after it is deleted), and a malformed one, "abc".
ShopId == Repeat("a", ObjectIdLen)
AbcId == <<"a", "b", "c">>
Ids == {ShopId, AbcId}
\* the ids sent to the routes that write to the shop (like, unlike, comment,
\* uncomment): well-formed ones; the malformed id is sent to the routes that
\* test the id's form (get, delete)
WriteIds == {ShopId}

\* req.body.text and req.body.review as sent by the client.
Texts == {"", "good"}
Reviews == {<<>>, <<"4">>, <<"5">>, <<"x">>}

\* ------------------------------------------------------------ documents
Null ==
  [exists |-> FALSE, user |-> "none", text |-> "", likes |-> <<>>,
   comments |-> <<>>, averageReview |-> 0, totalReview |-> 0, v |-> 0]

IsNull(d) == ~d.exists

\* new Coffee({text, address, suburb, name, avatar, user: req.user.id})
NewCoffee(u, text) ==
  [exists |-> TRUE, user |-> u, text |-> text, likes |-> <<>>,
   comments |-> <<>>,
   averageReview |-> DefaultAverageReview, totalReview |-> DefaultTotalReview,
   v |-> 0]

\* (a comment that is given the id of the first one)
NewCommentSameId(cid, u, text, review) ==
  [id |-> 1, user |-> u, text |-> text, review |-> review]

\* {text, review, name, avatar, user: req.user.id}, with the id of the subdocument
NewComment(cid, u, text, review) ==
  [id |-> cid, user |-> u, text |-> text, review |-> review]

\* (a route that does not check the text)
CreateErrorsNone(text) == {}

\* check('text', 'Text is required').not().isEmpty(): errors.array() of POST /
CreateErrors(text) == IF text = "" THEN {"text"} ELSE {}

\* the checks on text and review of POST /comment/:id
CommentErrors(text, review) ==
  (IF text = "" THEN {"text"} ELSE {}) \cup
  (IF review = <<>> THEN {"review"} ELSE {})

\* ----------------------------------------------------- pure computations
\* req.params.id.match(/^[0-9a-fA-F]{24}$/)
MatchesObjectId(id) ==
  Len(id) = ObjectIdLen /\ \A i \in 1..Len(id) : id[i] \in HexChars

\* What findById can cast to an ObjectId: 24 hex digits or any 12 characters.
Castable(id) == MatchesObjectId(id) \/ 2 * Len(id) = ObjectIdLen

DigitValue(c) == (CHOOSE i \in 1..Len(Digits) : Digits[i] = c) - 1

IsDigit(c) == \E i \in 1..Len(Digits) : Digits[i] = c

RECURSIVE ParseDigits(_, _)
ParseDigits(s, acc) ==
  IF s = <<>> THEN acc
  ELSE IF ~IsDigit(Head(s)) THEN NaN
  ELSE ParseDigits(Tail(s), 10 * acc + DigitValue(Head(s)))

\* Number(currentValue.review) on a string of the model's inputs:
\* "" is 0, a run of digits its value, anything else NaN.
Number(s) == ParseDigits(s, 0)

\* NaN is absorbing for +
Plus(a, b) == IF a = NaN \/ b = NaN THEN NaN ELSE a + b

\* coffee.comments.reduce((comment, currentValue) => comment + Number(currentValue.review), 0)
RECURSIVE SumReviews(_, _)
SumReviews(comments, acc) ==
  IF comments = <<>> THEN acc
  ELSE SumReviews(Tail(comments), Plus(acc, Number(Head(comments).review)))

\* (totalReviewNumber/totalReview).toFixed(2), in hundredths; 0/0 and NaN/n are NaN
ToFixed2(sum, total) ==
  IF sum = NaN \/ total = 0 THEN NaN
  ELSE (200 * sum + total) \div (2 * total)

\* lines 91-99 of the get handler: the aggregates set on the loaded document
Refresh(coffee) ==
  LET totalReviewNumber == SumReviews(coffee.comments, 0)
      totalReview == Len(coffee.comments)
      averageReview == ToFixed2(totalReviewNumber, totalReview)
  IN  [coffee EXCEPT !.averageReview = averageReview, !.totalReview = totalReview]

\* a membership test that looks at the newest like only
AlreadyLikedFirst(likes, u) == likes # <<>> /\ likes[1] = u

\* post.likes.filter(like => like.user.toString() === req.user.id).length > 0
AlreadyLiked(likes, u) ==
  Len(SelectSeq(likes, LAMBDA l : l = u)) > 0

\* push in place of unshift
Push(seq, x) == seq \o <<x>>

\* post.likes.unshift({ user: req.user.id })
Unshift(seq, x) == <<x>> \o seq

\* (the 0-based index of indexOf, used as a 1-based one)
IndexOfFromZero(likes, u) ==
  (CHOOSE i \in 1..Len(likes) : likes[i] = u /\ \A j \in 1..(i - 1) : likes[j] # u) - 1

\* post.likes.map(like => like.user.toString()).indexOf(req.user.id), 1-based
IndexOf(likes, u) ==
  CHOOSE i \in 1..Len(likes) : likes[i] = u /\ \A j \in 1..(i - 1) : likes[j] # u

\* splice(removeIndex) without the delete count: everything from the index on goes
SpliceToEnd(seq, i) == SubSeq(seq, 1, i - 1)

\* post.likes.splice(removeIndex, 1)
Splice1(seq, i) == SubSeq(seq, 1, i - 1) \o SubSeq(seq, i + 1, Len(seq))

\* post.comments.find(comment => comment.id === req.params.comment_id) found something
HasComment(comments, cid) == \E i \in 1..Len(comments) : comments[i].id = cid

\* the comment post.comments.find returns
FindComment(comments, cid) ==
  comments[CHOOSE i \in 1..Len(comments) :
             comments[i].id = cid /\ \A j \in 1..(i - 1) : comments[j].id # cid]

\* the filter with === in place of !==
FilterKeep(comments, cid) == SelectSeq(comments, LAMBDA c : c.id = cid)

\* post.comments.filter(({ id }) => id !== req.params.comment_id)
FilterOut(comments, cid) == SelectSeq(comments, LAMBDA c : c.id # cid)

\* ------------------------------------------------------------- listing
\* req.query.sortby: the four keys of the tables, the spelling 'lowest', a
\* value that names no mode, and "undefined" for a request without the parameter
SortKeys ==
  {"highest", "loweset", "lowest", "most", "least", "newest", "undefined"}

\* const label = {highest: ..., loweset: ..., most: ..., least: ...}; label[sortby]
label(sortby) ==
  CASE sortby = "highest" -> "averageReview"
    [] sortby = "loweset" -> "averageReview"
    [] sortby = "most"    -> "totalReview"
    [] sortby = "least"   -> "totalReview"
    [] OTHER              -> "undefined"

\* const labelValue = {highest: '-1', loweset: '1', most: '-1', least: '1'}
labelValue(sortby) ==
  CASE sortby = "highest" -> "-1"
    [] sortby = "loweset" -> "1"
    [] sortby = "most"    -> "-1"
    [] sortby = "least"   -> "1"
    [] OTHER              -> "undefined"

\* the direction .sort() takes from a value: '-1' descending, '1' ascending,
\* and ascending for a value that is undefined
SortDirection(sortValue) == IF sortValue = "-1" THEN -1 ELSE 1

\* the value a document is sorted on: its field, or the same (null) for every
\* document when it has no field of that name
SortField(coffee, sortbyLabel) ==
  CASE sortbyLabel = "averageReview" -> coffee.averageReview
    [] sortbyLabel = "totalReview"   -> coffee.totalReview
    [] OTHER                         -> 0

\* posts are in the order sortbyObj = {[sortbyLabel]: sortValue} asks for
InSortOrder(posts, sortbyLabel, sortValue) ==
  \A i, j \in 1..Len(posts) :
    i < j => SortDirection(sortValue) * SortField(posts[i], sortbyLabel)
             =< SortDirection(sortValue) * SortField(posts[j], sortbyLabel)

\* the documents of the collection in every order
Orderings(coll) ==
  {[i \in 1..Len(coll) |-> coll[f[i]]] : f \in Permutations(1..Len(coll))}

\* Coffee.find().sort(sortbyObj): all documents, in an order the sort allows
\* (the order of documents that compare equal is the store's choice)
FindSort(coll, sortbyLabel, sortValue) ==
  {posts \in Orderings(coll) : InSortOrder(posts, sortbyLabel, sortValue)}

\* averageReview (in hundredths) and totalReview as the routes store them:
\* the defaults, and the aggregates of comments rated 4; 5; 4 and 5
ShopAggregates ==
  {[averageReview |-> DefaultAverageReview, totalReview |-> DefaultTotalReview],
   [averageReview |-> 400, totalReview |-> 1],
   [averageReview |-> 500, totalReview |-> 1],
   [averageReview |-> 450, totalReview |-> 2]}

\* the collections that are listed: up to MaxShops shops, in the order stored
Collections ==
  UNION {[1..n -> ShopAggregates] : n \in 0..MaxShops}

\* ---------------------------------------------------------------- state
VARIABLES
  db,          \* the stored shop document, Null when there is none
  issued,      \* the store has issued ShopId (ids are never issued twice)
  versionKey,  \* the schema keeps __v and checks it on array writes
  nextCid,     \* comment subdocument ids issued so far, plus one
  nreq,        \* requests issued so far
  req,         \* per worker: the request suspended at its store write, if any
  res,         \* the last response sent: the request and its status
  coffees,     \* the collection the listing route reads
  listed       \* the last response of the listing route

shopVars == <<db, issued, versionKey, nextCid, nreq, req, res>>
listVars == <<coffees, listed>>
vars == <<db, issued, versionKey, nextCid, nreq, req, res, coffees, listed>>

NoReq ==
  [pc |-> "idle", op |-> "none", id |-> <<>>, user |-> "none",
   errors |-> {}, cid |-> 0, loaded |-> Null, doc |-> Null]

NoRes ==
  [op |-> "none", id |-> <<>>, user |-> "none", errors |-> {}, cid |-> 0,
   doc |-> Null, status |-> 0]

NoList == [sortby |-> "none", posts |-> <<>>, status |-> 0]

Init ==
  /\ coffees = <<>>
  /\ listed = NoList
  /\ db = Null
  /\ issued = FALSE
  /\ versionKey \in BOOLEAN
  /\ nextCid = 1
  /\ nreq = 0
  /\ req = [w \in Workers |-> NoReq]
  /\ res = NoRes

\* ------------------------------------------------------------ the store
\* Coffee.findById(req.params.id): a CastError, or a copy of the document / null
FindById(id) ==
  IF ~Castable(id) THEN [err |-> TRUE, doc |-> Null]
  ELSE IF id = ShopId THEN [err |-> FALSE, doc |-> db]
  ELSE [err |-> FALSE, doc |-> Null]

\* the handlers whose save writes an array path (likes or comments)
IsArrayOp(op) == op \in {"like", "unlike", "comment", "uncomment"}

\* (a save that writes both arrays of the document and recomputes its
\* aggregates, whatever the handler modified)
ApplyRefreshed(stored, doc, op) ==
  Refresh([stored EXCEPT !.likes = doc.likes, !.comments = doc.comments])

\* the update save() sends: only the paths the handler modified
ApplyDelta(stored, doc, op) ==
  IF op \in {"like", "unlike"} THEN [stored EXCEPT !.likes = doc.likes]
  ELSE IF op \in {"comment", "uncomment"} THEN [stored EXCEPT !.comments = doc.comments]
  ELSE [stored EXCEPT !.averageReview = doc.averageReview,
                      !.totalReview = doc.totalReview]

\* an array write bumps __v when the schema keeps it
Bump(stored, op) ==
  IF versionKey /\ IsArrayOp(op) THEN [stored EXCEPT !.v = stored.v + 1] ELSE stored

\* a save that inserts the document when the store holds none (an upsert)
SaveUpsert(w) ==
  LET r == req[w]
      stored == IF IsNull(db) THEN r.doc ELSE ApplyDelta(db, r.doc, r.op)
  IN  {[ok |-> TRUE, db |-> Bump(stored, r.op)]}

\* await doc.save() of worker w's document: the outcomes, each the stored
\* document afterwards and whether save resolved (ok) or threw
SaveOutcomes(w) ==
  LET r == req[w]
      versioned == versionKey /\ IsArrayOp(r.op)
      failed == [ok |-> FALSE, db |-> db]
      silent == [ok |-> TRUE, db |-> db]
      written == [ok |-> TRUE, db |-> Bump(ApplyDelta(db, r.doc, r.op), r.op)]
  IN  IF IsNull(db)
        THEN IF versioned THEN {failed} ELSE {failed, silent}
      ELSE IF versioned /\ db.v # r.doc.v THEN {failed}
      ELSE IF r.op = "get" /\ r.doc.averageReview = NaN THEN {failed, written}
      ELSE IF r.op = "comment" /\ Number(r.doc.comments[1].review) = NaN
        THEN {failed, written}
      ELSE {written}

\* ------------------------------------------------------------- requests
\* a new request goes to the first free worker
CanStart(w) ==
  /\ req[w].pc = "idle"
  /\ \A v \in Workers : v < w => req[v].pc = "await"
  /\ nreq < MaxRequests

Request(op, id, u) ==
  [pc |-> "await", op |-> op, id |-> id, user |-> u,
   errors |-> {}, cid |-> 0, loaded |-> Null, doc |-> Null]

\* the handler of request r answered with status st; its worker is free again
Answer(w, r, st) ==
  /\ req' = [req EXCEPT ![w] = NoReq]
  /\ res' = [op |-> r.op, id |-> r.id, user |-> r.user, errors |-> r.errors,
             cid |-> r.cid, doc |-> r.doc, status |-> st]

\* the handler is suspended at its await on the store write
Suspend(w, r) ==
  /\ req' = [req EXCEPT ![w] = r]
  /\ UNCHANGED res

\* POST / : create a shop
Create(w) ==
  /\ CanStart(w)
  /\ ~issued
  /\ \E u \in Creators, text \in Texts :
       LET r == Request("create", <<>>, u)
           errors == CreateErrors(text)
           coffee == NewCoffee(u, text)
       IN  IF errors # {}
             THEN /\ Answer(w, [r EXCEPT !.errors = errors], 400)
                  /\ UNCHANGED <<db, issued>>
             ELSE /\ db' = coffee
                  /\ issued' = TRUE
                  /\ Answer(w, [r EXCEPT !.id = ShopId, !.doc = coffee], 200)
  /\ nreq' = nreq + 1
  /\ UNCHANGED <<versionKey, nextCid>>
  /\ UNCHANGED listVars

\* GET /:id up to `await coffee.save()`
GetLoad(w) ==
  /\ CanStart(w)
  /\ \E id \in Ids :
       LET r == Request("get", id, "none")
           f == FindById(id)
       IN  IF f.err \/ IsNull(f.doc)
             THEN Answer(w, r, 500)
           ELSE LET coffee == Refresh(f.doc)
                    rr == [r EXCEPT !.loaded = f.doc, !.doc = coffee]
                IN  IF ~MatchesObjectId(id) \/ IsNull(coffee)
                      THEN Answer(w, rr, 404)
                      ELSE Suspend(w, rr)
  /\ nreq' = nreq + 1
  /\ UNCHANGED <<db, issued, versionKey, nextCid>>
  /\ UNCHANGED listVars

\* the store write of a suspended handler and its response
SaveAndAnswer(w, op) ==
  /\ req[w].pc = "await"
  /\ req[w].op = op
  /\ \E o \in SaveOutcomes(w) :
       /\ db' = o.db
       /\ Answer(w, req[w], IF o.ok THEN 200 ELSE 500)
  /\ UNCHANGED <<issued, versionKey, nextCid, nreq>>
  /\ UNCHANGED listVars

\* GET /:id from `await coffee.save()` on
GetSave(w) == SaveAndAnswer(w, "get")

\* DELETE /:id up to `await post.remove()`
DeleteLoad(w) ==
  /\ CanStart(w)
  /\ \E id \in Ids, u \in Users :
       LET r == Request("delete", id, u)
           f == FindById(id)
           rr == [r EXCEPT !.loaded = f.doc, !.doc = f.doc]
       IN  IF f.err THEN Answer(w, r, 500)
           ELSE IF ~MatchesObjectId(id) \/ IsNull(f.doc) THEN Answer(w, r, 404)
           ELSE IF f.doc.user # u THEN Answer(w, rr, 401)
           ELSE Suspend(w, rr)
  /\ nreq' = nreq + 1
  /\ UNCHANGED <<db, issued, versionKey, nextCid>>
  /\ UNCHANGED listVars

\* DELETE /:id from `await post.remove()` on
DeleteRemove(w) ==
  /\ req[w].pc = "await"
  /\ req[w].op = "delete"
  /\ db' = Null
  /\ Answer(w, req[w], 200)
  /\ UNCHANGED <<issued, versionKey, nextCid, nreq>>
  /\ UNCHANGED listVars

\* PUT /like/:id up to `await post.save()`
LikeLoad(w) ==
  /\ CanStart(w)
  /\ \E id \in WriteIds, u \in Users :
       LET r == Request("like", id, u)
           f == FindById(id)
           rr == [r EXCEPT !.loaded = f.doc, !.doc = f.doc]
       IN  IF f.err \/ IsNull(f.doc) THEN Answer(w, r, 500)
           ELSE IF AlreadyLiked(f.doc.likes, u) THEN Answer(w, rr, 400)
           ELSE Suspend(w, [rr EXCEPT !.doc.likes = Unshift(f.doc.likes, u)])
  /\ nreq' = nreq + 1
  /\ UNCHANGED <<db, issued, versionKey, nextCid>>
  /\ UNCHANGED listVars

\* PUT /like/:id from `await post.save()` on
LikeSave(w) == SaveAndAnswer(w, "like")

\* PUT /unlike/:id up to `await post.save()`
UnlikeLoad(w) ==
  /\ CanStart(w)
  /\ \E id \in WriteIds, u \in Users :
       LET r == Request("unlike", id, u)
           f == FindById(id)
           rr == [r EXCEPT !.loaded = f.doc, !.doc = f.doc]
       IN  IF f.err \/ IsNull(f.doc) THEN Answer(w, r, 500)
           ELSE IF ~AlreadyLiked(f.doc.likes, u) THEN Answer(w, rr, 400)
           ELSE Suspend(w, [rr EXCEPT !.doc.likes =
                                Splice1(f.doc.likes, IndexOf(f.doc.likes, u))])
  /\ nreq' = nreq + 1
  /\ UNCHANGED <<db, issued, versionKey, nextCid>>
  /\ UNCHANGED listVars

\* PUT /unlike/:id from `await post.save()` on
UnlikeSave(w) == SaveAndAnswer(w, "unlike")

\* POST /comment/:id up to `await coffee.save()`
CommentLoad(w) ==
  /\ CanStart(w)
  /\ \E id \in WriteIds, u \in Users, text \in Texts, review \in Reviews :
       LET r == Request("comment", id, u)
           errors == CommentErrors(text, review)
           f == FindById(id)
           newComment == NewComment(nextCid, u, text, review)
           rr == [r EXCEPT !.loaded = f.doc, !.doc = f.doc, !.cid = nextCid]
       IN  IF errors # {}
             THEN Answer(w, [r EXCEPT !.errors = errors], 400) /\ UNCHANGED nextCid
           ELSE IF f.err \/ IsNull(f.doc)
             THEN Answer(w, r, 500) /\ UNCHANGED nextCid
           ELSE /\ Suspend(w, [rr EXCEPT !.doc.comments =
                                   Unshift(f.doc.comments, newComment)])
                /\ nextCid' = nextCid + 1
  /\ nreq' = nreq + 1
  /\ UNCHANGED <<db, issued, versionKey>>
  /\ UNCHANGED listVars

\* POST /comment/:id from `await coffee.save()` on
CommentSave(w) == SaveAndAnswer(w, "comment")

\* DELETE /comment/:id/:comment_id up to `await post.save()`
UncommentLoad(w) ==
  /\ CanStart(w)
  /\ \E id \in WriteIds, u \in Users, cid \in 1..nextCid :
       LET r == [Request("uncomment", id, u) EXCEPT !.cid = cid]
           f == FindById(id)
           rr == [r EXCEPT !.loaded = f.doc, !.doc = f.doc]
       IN  IF f.err \/ IsNull(f.doc) THEN Answer(w, r, 500)
           ELSE IF ~HasComment(f.doc.comments, cid) THEN Answer(w, rr, 404)
           ELSE IF FindComment(f.doc.comments, cid).user # u THEN Answer(w, rr, 401)
           ELSE Suspend(w, [rr EXCEPT !.doc.comments = FilterOut(f.doc.comments, cid)])
  /\ nreq' = nreq + 1
  /\ UNCHANGED <<db, issued, versionKey, nextCid>>
  /\ UNCHANGED listVars

\* DELETE /comment/:id/:comment_id from `await post.save()` on
UncommentSave(w) == SaveAndAnswer(w, "uncomment")

Next ==
  \E w \in Workers :
    \/ Create(w)
    \/ GetLoad(w)
    \/ GetSave(w)
    \/ DeleteLoad(w)
    \/ DeleteRemove(w)
    \/ LikeLoad(w)
    \/ LikeSave(w)
    \/ UnlikeLoad(w)
    \/ UnlikeSave(w)
    \/ CommentLoad(w)
    \/ CommentSave(w)
    \/ UncommentLoad(w)
    \/ UncommentSave(w)

Spec == Init /\ [][Next]_vars

\* ------------------------------------------------------ the listing route
ListInit ==
  /\ coffees \in Collections
  /\ listed = NoList
  /\ db = Null
  /\ issued = FALSE
  /\ versionKey = FALSE
  /\ nextCid = 1
  /\ nreq = 0
  /\ req = [w \in Workers |-> NoReq]
  /\ res = NoRes

\* GET /
List ==
  \E sortby \in SortKeys :
    LET sortbyLabel == label(sortby)
        sortValue == labelValue(sortby)
    IN  /\ \E posts \in FindSort(coffees, sortbyLabel, sortValue) :
             listed' = [sortby |-> sortby, posts |-> posts, status |-> 200]
        /\ UNCHANGED coffees
        /\ UNCHANGED shopVars

ListNext == List

ListSpec == ListInit /\ [][ListNext]_vars

\* ------------------------------------------------------ reading a step
\* the step answers a request at once (no store write awaited): the worker was
\* idle and is idle again
AnsweredAtOnce == nreq' = nreq + 1 /\ req' = req

\* the step is the store write and the response of worker w's suspended request
Completes(w, op) ==
  req[w].pc = "await" /\ req[w].op = op /\ req'[w].pc = "idle"

Range(s) == {s[i] : i \in 1..Len(s)}

\* the store refuses worker w's array write: the version it loaded is stale
VersionConflict(w) == versionKey /\ db.v # req[w].loaded.v

NoDuplicates(seq) ==
  \A i, j \in 1..Len(seq) : i # j => seq[i] # seq[j]

\* the sequence seq without its i-th entry, the others in their order
WithoutIndex(seq, i) ==
  [k \in 1..(Len(seq) - 1) |-> IF k < i THEN seq[k] ELSE seq[k + 1]]

\* ------------------------------------------------------------------ C1
\* C1: when a like of user u completes on the existing record and another
\* user's like was stored between u's load and u's save, both users are in
\* the stored likes afterwards (no like is lost).
C1_BothLikesStored ==
  [][\A w \in Workers, u2 \in Users :
       ( /\ Completes(w, "like")
         /\ ~IsNull(db)
         /\ u2 # req[w].user
         /\ u2 \in Range(db.likes)
         /\ u2 \notin Range(req[w].loaded.likes) )
       => {req[w].user, u2} \subseteq Range(db'.likes)]_vars

\* ------------------------------------------------------------------ C2
\* C2: in every reachable state no user identifier occurs more than once in
\* the stored likes, whatever likes and unlikes ran and however they overlapped.
C2_LikesUnique == NoDuplicates(db.likes)

\* two like requests of the same user overlapped: one is stored, the other
\* is still suspended at its save
C2_Witness ==
  \E w \in Workers :
    /\ req[w].pc = "await"
    /\ req[w].op = "like"
    /\ req[w].user \in Range(db.likes)
    /\ req[w].user \notin Range(req[w].loaded.likes)

\* ------------------------------------------------------------------ C3
\* the mean of the reviews rounded to 2 decimals (in hundredths), 0 for none
RoundedMean(comments) ==
  IF comments = <<>> THEN 0
  ELSE ToFixed2(SumReviews(comments, 0), Len(comments))

\* C3: after every completed addComment or removeComment the stored
\* totalReview is the number of stored comments and the stored averageReview
\* is their rounded mean.
C3_AggregatesFollowComments ==
  (res.op \in {"comment", "uncomment"} /\ res.status = 200 /\ ~IsNull(db))
  => /\ db.totalReview = Len(db.comments)
     /\ db.averageReview = RoundedMean(db.comments)

\* ------------------------------------------------------------------ C4
\* C4: for a record without comments the aggregate getById computes, returns
\* and persists is averageReview = 0 and totalReview = 0.
C4_EmptyAverageIsZero ==
  /\ \A w \in Workers :
       (req[w].pc = "await" /\ req[w].op = "get" /\ req[w].loaded.comments = <<>>)
       => (req[w].doc.averageReview = 0 /\ req[w].doc.totalReview = 0)
  /\ (res.op = "get" /\ res.status = 200 /\ res.doc.comments = <<>>)
       => (res.doc.averageReview = 0 /\ res.doc.totalReview = 0)

\* ------------------------------------------------------------------ C5
\* the array a mutating handler writes
Written(d, op) == IF op \in {"like", "unlike"} THEN d.likes ELSE d.comments

\* C5: when a like, unlike, addComment or removeComment completes on the
\* existing record after another writer changed the array it read, the write
\* is either refused as a conflict (400) or made on the fresh record: what
\* the other writer added stays stored and what it removed stays removed.
C5_NoStaleOverwrite ==
  [][\A w \in Workers, op \in {"like", "unlike", "comment", "uncomment"} :
       ( /\ Completes(w, op)
         /\ ~IsNull(db)
         /\ Written(db, op) # Written(req[w].loaded, op) )
       => \/ res'.status = 400 /\ db' = db
          \/ /\ res'.status = 200
             /\ Range(Written(db, op)) \ Range(Written(req[w].loaded, op))
                  \subseteq Range(Written(db', op))
             /\ (Range(Written(req[w].loaded, op)) \ Range(Written(db, op)))
                  \cap Range(Written(db', op)) = {}]_vars

C8_MalformedIdIs404 ==
  (res.op \in {"get", "delete"} /\ ~MatchesObjectId(res.id)) => res.status = 404

\* ------------------------------------------------------------------ C9
\* C9: like on an existing record is answered at once exactly when the user
\* is already in likes, then with 400 and the stored likes left as they are;
\* otherwise it succeeds (200) unless the store refuses the write as stale,
\* and then stores the likes it loaded with the user prepended.
C9_Like ==
  [][/\ (AnsweredAtOnce /\ res'.op = "like" /\ res'.id = ShopId /\ ~IsNull(db))
        => /\ res'.user \in Range(db.likes)
           /\ res'.status = 400
           /\ db' = db
     /\ \A w \in Workers :
          (Completes(w, "like") /\ ~IsNull(db))
          => /\ req[w].user \notin Range(req[w].loaded.likes)
             /\ res'.status = 200 <=> ~VersionConflict(w)
             /\ res'.status # 200 => db' = db
             /\ res'.status = 200
                => db'.likes = <<req[w].user>> \o req[w].loaded.likes]_vars

\* a like was stored in front of an earlier one
C9_Witness ==
  /\ res.op = "like"
  /\ res.status = 200
  /\ ~IsNull(db)
  /\ Len(db.likes) >= 2
  /\ db.likes[1] = res.user
  /\ db.likes = res.doc.likes

C11_InvalidCommentRejected ==
  /\ \A w \in Workers :
       (req[w].pc = "await" /\ req[w].op = "comment")
       => /\ req[w].doc.comments[1].text # ""
          /\ Number(req[w].doc.comments[1].review) # NaN
  /\ ~IsNull(db)
     => \A i \in 1..Len(db.comments) : Number(db.comments[i].review) # NaN

\* ------------------------------------------------------ reading a listing
\* posts holds the documents of coll, each as often as coll does
SameDocuments(posts, coll) ==
  /\ Len(posts) = Len(coll)
  /\ \A d \in Range(coll) :
       Cardinality({i \in 1..Len(posts) : posts[i] = d})
       = Cardinality({i \in 1..Len(coll) : coll[i] = d})

Descending(posts, Key(_)) ==
  \A i, j \in 1..Len(posts) : i < j => Key(posts[i]) >= Key(posts[j])

Ascending(posts, Key(_)) ==
  \A i, j \in 1..Len(posts) : i < j => Key(posts[i]) =< Key(posts[j])

AverageReviewOf(coffee) == coffee.averageReview
TotalReviewOf(coffee) == coffee.totalReview

\* ----------------------------------------------------------------- C12
\* C12: a listing is answered with a sequence of records only when the sort
\* key names a sort mode; a key that names none, a missing one included, is
\* refused.
C12_UnknownSortKeyRejected ==
  listed.status = 200
  => listed.sortby \in {"highest", "lowest", "loweset", "most", "least"}

\* ----------------------------------------------------------------- C13
\* C13: a listing returns every record of the collection, ordered by
\* averageReview descending for 'highest' and ascending for 'lowest', by
\* totalReview descending for 'most' and ascending for 'least'.
C13_ListOrdered ==
  (listed.status = 200
   /\ listed.sortby \in {"highest", "lowest", "most", "least"})
  => /\ SameDocuments(listed.posts, coffees)
     /\ listed.sortby = "highest" => Descending(listed.posts, AverageReviewOf)
     /\ listed.sortby = "lowest" => Ascending(listed.posts, AverageReviewOf)
     /\ listed.sortby = "most" => Descending(listed.posts, TotalReviewOf)
     /\ listed.sortby = "least" => Ascending(listed.posts, TotalReviewOf)

\* ----------------------------------------------------------------- C14
\* C14: the record a getById returns carries totalReview equal to the number
\* of its comments and averageReview equal to the rounded mean of their
\* reviews, whatever aggregates were stored before.
C14_GetReturnsFreshAggregates ==
  (res.op = "get" /\ res.status = 200)
  => /\ res.doc.totalReview = Len(res.doc.comments)
     /\ res.doc.averageReview = RoundedMean(res.doc.comments)

\* ----------------------------------------------------------------- C15
\* C15: a like, unlike, addComment or removeComment with valid input that is
\* addressed to a well-formed identifier naming no stored record is answered
\* 404, and no record exists afterwards.
C15_MissingRecordIs404 ==
  [][( /\ AnsweredAtOnce
       /\ res'.op \in {"like", "unlike", "comment", "uncomment"}
       /\ res'.id = ShopId
       /\ res'.errors = {}
       /\ IsNull(db) )
     => (res'.status = 404 /\ IsNull(db'))]_vars

C17_GetIsPureRead ==
  [][\A w \in Workers : Completes(w, "get") => db' = db]_vars

\* ----------------------------------------------------------------- C18
\* C18: no step changes the owner of the stored record, and a comment that is
\* stored before and after a step has the same author before and after.
C18_OwnerAndAuthorsKept ==
  [][(~IsNull(db) /\ ~IsNull(db'))
     => /\ db'.user = db.user
        /\ \A i \in 1..Len(db.comments), j \in 1..Len(db'.comments) :
             db'.comments[j].id = db.comments[i].id
             => db'.comments[j].user = db.comments[i].user]_vars

\* a comment was removed by its author, and a comment of another author is
\* still stored on a record owned by a third user
C18_Witness ==
  /\ res.op = "uncomment"
  /\ res.status = 200
  /\ ~IsNull(db)
  /\ Len(db.comments) >= 1
  /\ db.comments[1].user # res.user
  /\ db.user \notin {res.user, db.comments[1].user}

\* ----------------------------------------------------------------- C19
\* C19: the step that completes a like or unlike leaves the stored comments,
\* averageReview and totalReview as they are; the step that completes an
\* addComment or removeComment leaves the stored likes as they are; a step
\* that answers 400, 401 or 404 leaves the stored record as it is.
C19_FrameConditions ==
  [][/\ \A w \in Workers :
          (Completes(w, "like") \/ Completes(w, "unlike"))
          => /\ db'.comments = db.comments
             /\ db'.averageReview = db.averageReview
             /\ db'.totalReview = db.totalReview
     /\ \A w \in Workers :
          (Completes(w, "comment") \/ Completes(w, "uncomment"))
          => db'.likes = db.likes
     /\ res'.status \in {400, 401, 404} => db' = db]_vars

\* a like was stored on a record that holds a comment and aggregates other
\* than the initial ones
C19_Witness ==
  /\ res.op = "like"
  /\ res.status = 200
  /\ ~IsNull(db)
  /\ db.likes = res.doc.likes
  /\ Len(db.comments) >= 1
  /\ db.totalReview >= 1

\* ----------------------------------------------------------------- C20
\* the last response is a successful like by the user whose unlike worker w
\* is about to complete, and the unlike read the record as that like stored
\* it, with no write in between
UnlikeFollowsLike(w) ==
  /\ Completes(w, "unlike")
  /\ res.op = "like"
  /\ res.status = 200
  /\ res.user = req[w].user
  /\ req[w].loaded.likes = res.doc.likes
  /\ db = req[w].loaded

====
